---- MODULE Spec2Model ----
(***************************************************************************)
(* Video Grouper (Wails + Go backend, Vue front end).                      *)
(*                                                                         *)
(* The model covers the Go backend of src/app.go: App.SelectDirectory      *)
(* (directory dialog + filepath.Walk scan) and App.MoveVideos (resolve the *)
(* destination from the first path, os.Mkdir, then os.Rename each path,    *)
(* emitting move-status / move-error / move-complete events), run against  *)
(* a small file system.                                                    *)
(*                                                                         *)
(* Paths are sequences of one-character strings, so that strings.Split,    *)
(* strings.Join, filepath.Base, filepath.Dir and filepath.Join are         *)
(* computed character by character as the Go library computes them.        *)
(***************************************************************************)
EXTENDS Integers, Sequences, FiniteSets, TLC

VARIABLES
    goos,               \* "linux" or "windows": the platform the binary runs on
    files,              \* file system: regular files, path |-> identity of the content
    dirs,               \* file system: the directories
    readonlyDirs,       \* directories whose entries the process may not add or remove
    selectedDir,        \* SelectDirectory: the directory the dialog returned
    videoFiles,         \* SelectDirectory: the returned slice
    scanErr,            \* SelectDirectory: the returned error
    unreadable,         \* history: the entries the last scan was unable to read
    pc,                 \* position inside MoveVideos
    absoluteFilePaths,  \* MoveVideos: its argument
    outputDir,          \* MoveVideos: the resolved destination
    idx,                \* MoveVideos: position of the range loop (1-based)
    movedCount,         \* MoveVideos: movedCount
    events,             \* the events emitted by the current / last call, in order
    ret,                \* the value returned by the last call
    attempts,           \* history: the paths whose os.Rename was attempted by this call
    files0,             \* history: files when the call started
    dirs0,              \* history: dirs when the call started
    calls,              \* number of MoveVideos calls started
    externals,          \* number of external file removals
    thumb,              \* GenerateThumbnail: the last call, what it ran and returned
    videos,             \* front end: the list of videos
    baseDirectory,      \* front end: baseDirectory
    videoIdCounter,     \* front end: videoIdCounter
    isMoving,           \* front end: isMoving
    movingVideoIds,     \* front end: movingVideoIds
    loops,              \* front end: the running chunkGenerateThumbnails loops
    thumbCalls,         \* front end: the GenerateThumbnail calls not yet settled
    moveQueue,          \* the MoveVideos calls sent, not yet taken up by the backend
    eventSeen,          \* front end: the terminal event of the call was handled
    scans,              \* number of SelectDirectory calls made by the front end
    scanPending         \* front end: selectBaseDirectory awaits SelectDirectory

vars == <<goos, files, dirs, readonlyDirs, selectedDir, videoFiles, scanErr, unreadable, pc,
          absoluteFilePaths, outputDir, idx, movedCount, events, ret, attempts,
          files0, dirs0, calls, externals, thumb, videos, baseDirectory,
          videoIdCounter, isMoving, movingVideoIds, loops, thumbCalls, moveQueue,
          eventSeen, scans, scanPending>>

fsVars == <<files, dirs, readonlyDirs>>
scanVars == <<selectedDir, videoFiles, scanErr, unreadable>>
callVars == <<pc, absoluteFilePaths, outputDir, idx, movedCount, events, ret,
              attempts, files0, dirs0, calls>>
thumbVars == <<thumb>>
uiVars == <<videos, baseDirectory, videoIdCounter, isMoving, movingVideoIds, loops,
            thumbCalls, moveQueue, eventSeen, scans, scanPending>>

----------------------------------------------------------------------------
(* Bounds of the model *)

\* longest request handed to MoveVideos
MaxReq == 3
\* number of MoveVideos calls in one behaviour
MaxCalls == 2
\* number of files removed behind the program's back in one behaviour
MaxExternal == 1
\* most bytes the media tool writes to its standard output
MaxBytes == 3
\* number of directory selections made in the front end in one behaviour
MaxScans == 2
\* the same, in the behaviours where videos are moved as well
MaxScansMoving == 1
\* most paths in a request that may name any file
MaxReqAny == 2

----------------------------------------------------------------------------
(* Strings: package strings, as used by src/app.go *)

RECURSIVE Split(_, _)
\* strings.Split(s, sep) for a one-character sep
Split(s, sep) ==
    IF s = <<>> THEN << <<>> >>
    ELSE LET rest == Split(Tail(s), sep) IN
         IF Head(s) = sep
         THEN << <<>> >> \o rest
         ELSE << <<Head(s)>> \o Head(rest) >> \o Tail(rest)

RECURSIVE StringsJoin(_, _)
\* strings.Join(elems, sep)
StringsJoin(elems, sep) ==
    IF Len(elems) = 0 THEN <<>>
    ELSE IF Len(elems) = 1 THEN elems[1]
    ELSE elems[1] \o sep \o StringsJoin(Tail(elems), sep)

\* strings.ToLower on the letters the model uses
ToLowerChar(c) ==
    CASE c = "M" -> "m"
      [] c = "V" -> "v"
      [] OTHER -> c

\* strings.ToLower
ToLower(s) == [k \in 1..Len(s) |-> ToLowerChar(s[k])]

\* strings.HasSuffix
HasSuffix(s, suffix) ==
    /\ Len(s) >= Len(suffix)
    /\ SubSeq(s, Len(s) - Len(suffix) + 1, Len(s)) = suffix

----------------------------------------------------------------------------
(* Paths: package path/filepath, as used by src/app.go *)

\* the platforms the binary is built for
Platforms == {"linux", "windows"}

\* filepath.Separator of a platform
SeparatorOn(os) == IF os = "windows" THEN "\\" ELSE "/"

\* filepath.Separator
Separator == SeparatorOn(goos)

\* os.IsPathSeparator
IsPathSeparator(c) == c = "/" \/ (goos = "windows" /\ c = "\\")

RECURSIVE Elements(_)
\* the elements of a path between separators (empty ones included)
Elements(path) ==
    IF path = <<>> THEN << <<>> >>
    ELSE LET rest == Elements(Tail(path)) IN
         IF IsPathSeparator(Head(path))
         THEN << <<>> >> \o rest
         ELSE << <<Head(path)>> \o Head(rest) >> \o Tail(rest)

RECURSIVE DotDot(_, _, _)
\* filepath.Clean: the elements kept, ".." removing the element before it
DotDot(elems, kept, rooted) ==
    IF elems = <<>> THEN kept
    ELSE LET e == Head(elems) IN
         IF e = <<".", ".">>
         THEN IF kept # <<>> /\ kept[Len(kept)] # <<".", ".">>
              THEN DotDot(Tail(elems), SubSeq(kept, 1, Len(kept) - 1), rooted)
              ELSE IF rooted
                   THEN DotDot(Tail(elems), kept, rooted)
                   ELSE DotDot(Tail(elems), Append(kept, e), rooted)
         ELSE DotDot(Tail(elems), Append(kept, e), rooted)

\* filepath.Clean (paths without a volume name)
Clean(path) ==
    LET rooted == path # <<>> /\ IsPathSeparator(path[1])
        named == SelectSeq(Elements(path), LAMBDA e : e # <<>> /\ e # <<".">>)
        kept == DotDot(named, <<>>, rooted)
        body == StringsJoin(kept, <<Separator>>)
    IN  IF rooted THEN <<Separator>> \o body
        ELSE IF body = <<>> THEN <<".">> ELSE body

\* filepath.Base
Base(path) ==
    IF path = <<>> THEN <<".">>
    ELSE LET named == SelectSeq(Elements(path), LAMBDA e : e # <<>>)
         IN  IF named = <<>> THEN <<Separator>> ELSE named[Len(named)]

RECURSIVE LastSeparator(_)
\* index of the last separator of a path, 0 when there is none
LastSeparator(path) ==
    IF path = <<>> THEN 0
    ELSE IF IsPathSeparator(path[Len(path)]) THEN Len(path)
    ELSE LastSeparator(SubSeq(path, 1, Len(path) - 1))

\* filepath.Dir
Dir(path) == Clean(SubSeq(path, 1, LastSeparator(path)))

\* filepath.Join
Join(elems) ==
    LET named == SelectSeq(elems, LAMBDA e : e # <<>>)
    IN  IF named = <<>> THEN <<>> ELSE Clean(StringsJoin(named, <<Separator>>))

----------------------------------------------------------------------------
(* The file system the program runs against *)

\* an absolute path of a platform, made of the given element names
AbsOn(os, names) == <<SeparatorOn(os)>> \o StringsJoin(names, <<SeparatorOn(os)>>)

\* the paths of the model, on each platform
Tree ==
    [os \in Platforms |->
        [root |-> <<SeparatorOn(os)>>,
         b |-> AbsOn(os, << <<"b">> >>),
         s |-> AbsOn(os, << <<"b">>, <<"s">> >>),
         dx |-> AbsOn(os, << <<"d", ".", "m", "4", "v">> >>),
         n |-> AbsOn(os, << <<"n">> >>),
         o |-> AbsOn(os, << <<"n">>, <<"o">> >>),
         a |-> AbsOn(os, << <<"b">>, <<"a", ".", "m", "4", "v">> >>),
         c |-> AbsOn(os, << <<"b">>, <<"c", ".", "m", "4", "v">> >>),
         sa |-> AbsOn(os, << <<"b">>, <<"s">>, <<"a", ".", "m", "4", "v">> >>),
         e |-> AbsOn(os, << <<"d", ".", "m", "4", "v">>, <<"e", ".", "M", "4", "V">> >>),
         m |-> AbsOn(os, << <<"n">>, <<"m", "4", "v">> >>),
         block |-> AbsOn(os, << <<"b">>, <<"c", "_", "m", "4", "v">> >>)]]

Root == Tree[goos].root
DirB == Tree[goos].b
DirS == Tree[goos].s
DirDX == Tree[goos].dx
DirN == Tree[goos].n
DirO == Tree[goos].o
PathA == Tree[goos].a
PathC == Tree[goos].c
PathSA == Tree[goos].sa
PathE == Tree[goos].e
PathBlock == Tree[goos].block
PathM == Tree[goos].m

\* the paths a caller may put in a request
RequestPaths == {PathA, PathC, PathSA, PathE}

\* a sequence that names no path twice
Distinct(paths) == \A j, k \in 1..Len(paths) : paths[j] = paths[k] => j = k

\* on each platform, every sequence of at most MaxReq request paths that lists
\* each path once
RequestsOn ==
    [os \in Platforms |->
        LET t == Tree[os]
            paths == {t.a, t.c, t.sa, t.e}
        IN  {req \in UNION {[1..n -> paths] : n \in 0..MaxReq} : Distinct(req)}]

\* the requests (the front end builds a request from distinct entries of its list)
Requests == RequestsOn[goos]

\* os.Stat(path) succeeds (the paths of the model are clean: no empty, "." or
\* ".." element, so a path names its file literally)
Exists(path) == path \in DOMAIN files \/ path \in dirs

\* os.Mkdir(path): "ok" or the errno
MkdirError(path) ==
    LET p == path IN
    IF Dir(p) \notin dirs
    THEN IF Dir(p) \in DOMAIN files THEN "ENOTDIR" ELSE "ENOENT"
    ELSE IF Exists(p) THEN "EEXIST"
    ELSE IF Dir(p) \in readonlyDirs THEN "EACCES"
    ELSE "ok"

\* os.Rename(oldpath, newpath): "ok" or the errno; a directory cannot be renamed
\* to a path inside itself, nor onto a regular file
RenameError(oldpath, newpath) ==
    LET o == oldpath
        n == newpath
    IN  IF ~Exists(o) THEN "ENOENT"
        ELSE IF o \in dirs /\ Dir(n) = o THEN "EINVAL"
        ELSE IF o \in dirs /\ n \in DOMAIN files THEN "ENOTDIR"
        ELSE IF Dir(n) \notin dirs THEN "ENOENT"
        ELSE IF Dir(o) \in readonlyDirs \/ Dir(n) \in readonlyDirs THEN "EACCES"
        ELSE IF n \in dirs THEN "EEXIST"
        ELSE "ok"

\* where a path is after os.Rename(oldpath, newpath): oldpath and, when it is a
\* directory, everything below it goes to newpath
MovedPath(path, oldpath, newpath) ==
    LET len == Len(oldpath)
    IN  IF path = oldpath THEN newpath
        ELSE IF /\ Len(path) > len
                /\ SubSeq(path, 1, len) = oldpath
                /\ path[len + 1] = Separator
        THEN newpath \o SubSeq(path, len + 1, Len(path))
        ELSE path

\* the files after a successful os.Rename(oldpath, newpath): newpath is replaced
Renamed(oldpath, newpath) ==
    LET o == oldpath
        n == newpath
    IN  IF o \in DOMAIN files
        THEN [p \in (DOMAIN files \ {o}) \cup {n} |-> IF p = n THEN files[o] ELSE files[p]]
        ELSE [p \in {MovedPath(q, o, n) : q \in DOMAIN files} |->
                 files[CHOOSE q \in DOMAIN files : MovedPath(q, o, n) = p]]

\* the directories after a successful os.Rename(oldpath, newpath)
RenamedDirs(oldpath, newpath) ==
    IF oldpath \in dirs THEN {MovedPath(d, oldpath, newpath) : d \in dirs} ELSE dirs

\* a stat check that never reports a missing file (os.IsExist in place of
\* os.IsNotExist)
IsNotExistNever(path) == FALSE

\* _, statErr := os.Stat(path); os.IsNotExist(statErr)
IsNotExist(path) == ~Exists(path)

----------------------------------------------------------------------------
(* Events: runtime.EventsEmit *)

Event(name, kind, path, n) == [name |-> name, kind |-> kind, path |-> path, n |-> n]

\* "Received request to move %d files."
EvReceived(n) == Event("move-status", "received", <<>>, n)
\* "Target directory: %s"
EvTarget(dir) == Event("move-status", "target", dir, 0)
\* "Output directory created."
EvCreated == Event("move-status", "created", <<>>, 0)
\* "Starting file move process..."
EvStarting == Event("move-status", "starting", <<>>, 0)
\* "Moving %s..."
EvMoving(fileName) == Event("move-status", "moving", fileName, 0)
\* "Successfully moved %d files to %s"
EvComplete(n, dir) == Event("move-complete", "complete", dir, n)
\* "no video files provided to move"
EvErrNoFiles == Event("move-error", "no-files", <<>>, 0)
\* "failed to create output directory '%s': %v"
EvErrMkdir(dir) == Event("move-error", "mkdir", dir, 0)
\* "Failed to move file '%s': Source file not found."
EvErrNotFound(fileName) == Event("move-error", "not-found", fileName, 0)
\* "Failed to move file '%s' to '%s': %v. Might be cross-drive issue or permissions."
EvErrRename(fileName) == Event("move-error", "rename", fileName, 0)

----------------------------------------------------------------------------
(* App.GenerateThumbnail *)

\* the alphabet of base64.StdEncoding
Base64Alphabet ==
    <<"A", "B", "C", "D", "E", "F", "G", "H", "I", "J", "K", "L", "M", "N", "O", "P",
      "Q", "R", "S", "T", "U", "V", "W", "X", "Y", "Z", "a", "b", "c", "d", "e", "f",
      "g", "h", "i", "j", "k", "l", "m", "n", "o", "p", "q", "r", "s", "t", "u", "v",
      "w", "x", "y", "z", "0", "1", "2", "3", "4", "5", "6", "7", "8", "9", "+", "/">>

\* the base64 character of a 6-bit value
Base64Char(sextet) == Base64Alphabet[sextet + 1]

RECURSIVE EncodeToString(_)
\* base64.StdEncoding.EncodeToString: three bytes give four characters, a last
\* group of one or two bytes is padded with "="
EncodeToString(bytes) ==
    IF Len(bytes) = 0 THEN <<>>
    ELSE IF Len(bytes) = 1
    THEN LET val == bytes[1] * 65536
         IN  <<Base64Char(val \div 262144), Base64Char((val \div 4096) % 64), "=", "=">>
    ELSE IF Len(bytes) = 2
    THEN LET val == bytes[1] * 65536 + bytes[2] * 256
         IN  <<Base64Char(val \div 262144), Base64Char((val \div 4096) % 64),
               Base64Char((val \div 64) % 64), "=">>
    ELSE LET val == bytes[1] * 65536 + bytes[2] * 256 + bytes[3]
         IN  <<Base64Char(val \div 262144), Base64Char((val \div 4096) % 64),
               Base64Char((val \div 64) % 64), Base64Char(val % 64)>>
                 \o EncodeToString(SubSeq(bytes, 4, Len(bytes)))

\* the bytes the tool writes: the two bytes that open a JPEG stream
ByteValues == {216, 255}

\* what the tool may write to its standard output
Outputs == UNION {[1..n -> ByteValues] : n \in 0..MaxBytes}

\* what the tool may write to its standard error
Diagnostics == {"", "Invalid data found when processing input"}

\* the video files a thumbnail is asked for
VideoKinds == {"playable", "zero-length"}

\* cmd.Run() for a video of a kind: the binary is not found (nothing runs), the
\* tool exits non-zero, or it exits zero; the tool writes what it likes, but it
\* has no frame to write for a file of no bytes
ToolRuns(video) ==
    {[err |-> "not-found", stdout |-> <<>>, stderr |-> ""]}
        \cup {[err |-> e, stdout |-> o, stderr |-> d] :
                 e \in {"exit-status", "nil"},
                 o \in IF video = "zero-length" THEN {<<>>} ELSE Outputs,
                 d \in Diagnostics}

\* no error
NilError == [kind |-> "nil", cause |-> "nil", stderr |-> ""]

\* "ffmpeg execution failed for %s: %v. Stderr: %s"
ErrToolFailed(cause, stderr) == [kind |-> "ErrToolFailed", cause |-> cause, stderr |-> stderr]

\* "ffmpeg produced no thumbnail data for video: %s"
ErrNoData == [kind |-> "ErrNoData", cause |-> "nil", stderr |-> ""]

\* fmt.Sprintf("data:image/jpeg;base64,%s", encodedString)
DataURL(encodedString) == <<"data:image/jpeg;base64,">> \o encodedString

\* a result that skips the check for an empty output
ThumbnailResultUnchecked(run) ==
    IF run.err # "nil"
    THEN [url |-> <<>>, err |-> ErrToolFailed(run.err, run.stderr),
          logs |-> <<"info", "error">>]
    ELSE [url |-> DataURL(EncodeToString(run.stdout)), err |-> NilError,
          logs |-> <<"info", "info">>]

\* what GenerateThumbnail returns and logs after one run of the tool (lines 169-204)
ThumbnailResult(run) ==
    IF run.err # "nil"
    THEN [url |-> <<>>, err |-> ErrToolFailed(run.err, run.stderr),
          logs |-> <<"info", "error">>]
    ELSE IF Len(run.stdout) = 0
    THEN [url |-> <<>>, err |-> ErrNoData,
          logs |-> <<"info", IF run.stderr # "" THEN "warning" ELSE "error">>]
    ELSE [url |-> DataURL(EncodeToString(run.stdout)), err |-> NilError,
          logs |-> <<"info", "info">>]

\* before any call of GenerateThumbnail
NoThumbnail ==
    [videoPath |-> <<>>, video |-> "none", runs |-> <<>>, url |-> <<>>,
     err |-> NilError, logs |-> <<>>, events |-> <<>>]

\* App.GenerateThumbnail (lines 151-205): one run of the tool, no event emitted
GenerateThumbnail(videoPath, video, run) ==
    /\ pc = "idle"
    /\ LET result == ThumbnailResult(run)
       IN  thumb' = [videoPath |-> videoPath, video |-> video, runs |-> <<run>>,
                     url |-> result.url, err |-> result.err, logs |-> result.logs,
                     events |-> <<>>]
    /\ UNCHANGED <<goos, fsVars, scanVars, callVars, externals>>

----------------------------------------------------------------------------
(* App.MoveVideos *)

RECURSIVE Ext(_)
\* filepath.Ext: the suffix of the last element that starts at its last dot
Ext(path) ==
    IF path = <<>> \/ IsPathSeparator(path[Len(path)]) THEN <<>>
    ELSE IF path[Len(path)] = "." THEN <<".">>
    ELSE LET e == Ext(SubSeq(path, 1, Len(path) - 1))
         IN  IF e = <<>> THEN <<>> ELSE Append(e, path[Len(path)])

\* strings.TrimSuffix
TrimSuffix(s, suffix) ==
    IF HasSuffix(s, suffix) THEN SubSeq(s, 1, Len(s) - Len(suffix)) ELSE s

\* the destination rule of the earlier backend: the first file's name without its
\* extension, two directory levels above the file
ResolveDestinationStem(firstFilePath) ==
    Join(<<Dir(Dir(firstFilePath)),
           TrimSuffix(Base(firstFilePath), Ext(Base(firstFilePath)))>>)

\* a destination taken from the last path of the request instead of the first
ResolveDestinationLast(firstFilePath) ==
    StringsJoin(Split(absoluteFilePaths[Len(absoluteFilePaths)], "."), <<"_">>)

\* outputDir := strings.Join(strings.Split(firstFilePath, "."), "_")
ResolveDestination(firstFilePath) == StringsJoin(Split(firstFilePath, "."), <<"_">>)

\* newPath := filepath.Join(outputDir, filepath.Base(originalPath))
NewPath(dir, originalPath) == Join(<<dir, Base(originalPath)>>)

Init ==
    /\ goos \in Platforms
    /\ files = [p \in {PathA, PathC, PathSA, PathE, PathBlock, PathM} |-> p]
    /\ dirs = {Root, DirB, DirS, DirDX, DirN, DirO}
    /\ readonlyDirs \in {{}, {DirS}}
    /\ selectedDir = <<>>
    /\ videoFiles = <<>>
    /\ scanErr = "none"
    /\ unreadable = {}
    /\ pc = "idle"
    /\ absoluteFilePaths = <<>>
    /\ outputDir = <<>>
    /\ idx = 0
    /\ movedCount = 0
    /\ events = <<>>
    /\ ret = "none"
    /\ attempts = <<>>
    /\ files0 = files
    /\ dirs0 = dirs
    /\ calls = 0
    /\ externals = 0
    /\ thumb = NoThumbnail
    /\ videos = <<>>
    /\ baseDirectory = <<>>
    /\ videoIdCounter = 0
    /\ isMoving = FALSE
    /\ movingVideoIds = <<>>
    /\ loops = <<>>
    /\ thumbCalls = {}
    /\ moveQueue = <<>>
    /\ eventSeen = FALSE
    /\ scans = 0
    /\ scanPending = FALSE

\* the call and its first notification (lines 74-76)
MoveVideosEnter(req) ==
    /\ pc = "idle"
    /\ calls < MaxCalls
    /\ calls' = calls + 1
    /\ absoluteFilePaths' = req
    /\ events' = <<EvReceived(Len(req))>>
    /\ ret' = "pending"
    /\ outputDir' = <<>>
    /\ idx' = 0
    /\ movedCount' = 0
    /\ attempts' = <<>>
    /\ files0' = files
    /\ dirs0' = dirs
    /\ pc' = "validate"
    /\ UNCHANGED <<goos, fsVars, scanVars, externals>>

\* MoveVideosResolve with an empty request returned early without an error
MoveVideosResolveSilent ==
    /\ pc = "validate"
    /\ IF Len(absoluteFilePaths) = 0
       THEN /\ ret' = "nil"
            /\ pc' = "done"
            /\ UNCHANGED <<events, outputDir>>
       ELSE /\ outputDir' = ResolveDestination(absoluteFilePaths[1])
            /\ events' = Append(events, EvTarget(outputDir'))
            /\ pc' = "mkdir"
            /\ UNCHANGED ret
    /\ UNCHANGED <<goos, fsVars, scanVars, absoluteFilePaths, idx, movedCount,
                   attempts, files0, dirs0, calls, externals>>

\* the empty-request check and the destination (lines 78-98)
MoveVideosResolve ==
    /\ pc = "validate"
    /\ IF Len(absoluteFilePaths) = 0
       THEN /\ events' = Append(events, EvErrNoFiles)
            /\ ret' = "ErrNoFiles"
            /\ pc' = "done"
            /\ UNCHANGED outputDir
       ELSE /\ outputDir' = ResolveDestination(absoluteFilePaths[1])
            /\ events' = Append(events, EvTarget(outputDir'))
            /\ pc' = "mkdir"
            /\ UNCHANGED ret
    /\ UNCHANGED <<goos, fsVars, scanVars, absoluteFilePaths, idx, movedCount,
                   attempts, files0, dirs0, calls, externals>>

\* MoveVideosMkdir with the error of os.Mkdir ignored
MoveVideosMkdirUnchecked ==
    /\ pc = "mkdir"
    /\ dirs' = IF MkdirError(outputDir) = "ok" THEN dirs \cup {outputDir} ELSE dirs
    /\ events' = events \o <<EvCreated, EvStarting>>
    /\ movedCount' = 0
    /\ idx' = 1
    /\ pc' = "loop"
    /\ UNCHANGED <<goos, files, readonlyDirs, scanVars, absoluteFilePaths, outputDir,
                   ret, attempts, files0, dirs0, calls, externals>>

\* MoveVideosMkdir whose error branch lacks the return: the error is notified and
\* the call goes on to the renames
MoveVideosMkdirNotReturned ==
    /\ pc = "mkdir"
    /\ IF MkdirError(outputDir) # "ok"
       THEN /\ events' = Append(events, EvErrMkdir(outputDir)) \o <<EvCreated, EvStarting>>
            /\ UNCHANGED dirs
       ELSE /\ dirs' = dirs \cup {outputDir}
            /\ events' = events \o <<EvCreated, EvStarting>>
    /\ movedCount' = 0
    /\ idx' = 1
    /\ pc' = "loop"
    /\ UNCHANGED <<goos, files, readonlyDirs, scanVars, absoluteFilePaths, outputDir,
                   ret, attempts, files0, dirs0, calls, externals>>

\* os.Mkdir of the destination (lines 100-113)
MoveVideosMkdir ==
    /\ pc = "mkdir"
    /\ IF MkdirError(outputDir) # "ok"
       THEN /\ events' = Append(events, EvErrMkdir(outputDir))
            /\ ret' = "ErrMkdir"
            /\ pc' = "done"
            /\ UNCHANGED <<dirs, idx, movedCount>>
       ELSE /\ dirs' = dirs \cup {outputDir}
            /\ events' = events \o <<EvCreated, EvStarting>>
            /\ movedCount' = 0
            /\ idx' = 1
            /\ pc' = "loop"
            /\ UNCHANGED ret
    /\ UNCHANGED <<goos, files, readonlyDirs, scanVars, absoluteFilePaths, outputDir,
                   attempts, files0, dirs0, calls, externals>>

\* MoveVideosNext without the per-file status
MoveVideosNextNoStatus ==
    /\ pc = "loop"
    /\ IF idx > Len(absoluteFilePaths)
       THEN /\ events' = Append(events, EvComplete(movedCount, outputDir))
            /\ ret' = "nil"
            /\ pc' = "done"
       ELSE /\ pc' = "rename"
            /\ UNCHANGED <<events, ret>>
    /\ UNCHANGED <<goos, fsVars, scanVars, absoluteFilePaths, outputDir, idx,
                   movedCount, attempts, files0, dirs0, calls, externals>>

\* the head of the range loop, and the return after it (lines 114-119, 143-147)
MoveVideosNext ==
    /\ pc = "loop"
    /\ IF idx > Len(absoluteFilePaths)
       THEN /\ events' = Append(events, EvComplete(movedCount, outputDir))
            /\ ret' = "nil"
            /\ pc' = "done"
       ELSE /\ events' = Append(events, EvMoving(Base(absoluteFilePaths[idx])))
            /\ pc' = "rename"
            /\ UNCHANGED ret
    /\ UNCHANGED <<goos, fsVars, scanVars, absoluteFilePaths, outputDir, idx,
                   movedCount, attempts, files0, dirs0, calls, externals>>

\* MoveVideosRename that reports a failed rename and goes on with the next path
MoveVideosRenameContinue ==
    /\ pc = "rename"
    /\ LET originalPath == absoluteFilePaths[idx]
           fileName == Base(originalPath)
           newPath == NewPath(outputDir, originalPath)
       IN  /\ attempts' = Append(attempts, originalPath)
           /\ IF RenameError(originalPath, newPath) = "ok"
              THEN /\ files' = Renamed(originalPath, newPath)
                   /\ dirs' = RenamedDirs(originalPath, newPath)
                   /\ movedCount' = movedCount + 1
                   /\ UNCHANGED events
              ELSE /\ events' = Append(events, EvErrRename(fileName))
                   /\ UNCHANGED <<files, dirs, movedCount>>
           /\ idx' = idx + 1
           /\ pc' = "loop"
           /\ UNCHANGED ret
    /\ UNCHANGED <<goos, readonlyDirs, scanVars, absoluteFilePaths, outputDir,
                   files0, dirs0, calls, externals>>

\* os.Rename of one path and its error handling (lines 121-141)
MoveVideosRename ==
    /\ pc = "rename"
    /\ LET originalPath == absoluteFilePaths[idx]
           fileName == Base(originalPath)
           newPath == NewPath(outputDir, originalPath)
       IN  /\ attempts' = Append(attempts, originalPath)
           /\ IF RenameError(originalPath, newPath) = "ok"
              THEN /\ files' = Renamed(originalPath, newPath)
                   /\ dirs' = RenamedDirs(originalPath, newPath)
                   /\ movedCount' = movedCount + 1
                   /\ idx' = idx + 1
                   /\ pc' = "loop"
                   /\ UNCHANGED <<events, ret>>
              ELSE /\ IF IsNotExist(originalPath)
                      THEN /\ events' = Append(events, EvErrNotFound(fileName))
                           /\ ret' = "ErrNotFound"
                      ELSE /\ events' = Append(events, EvErrRename(fileName))
                           /\ ret' = "ErrRename"
                   /\ pc' = "done"
                   /\ UNCHANGED <<files, dirs, movedCount, idx>>
    /\ UNCHANGED <<goos, readonlyDirs, scanVars, absoluteFilePaths, outputDir,
                   files0, dirs0, calls, externals>>

\* the call has returned: its locals and its notifications are gone
MoveVideosReturn ==
    /\ pc = "done"
    /\ pc' = "idle"
    /\ absoluteFilePaths' = <<>>
    /\ outputDir' = <<>>
    /\ idx' = 0
    /\ movedCount' = 0
    /\ events' = <<>>
    /\ ret' = "none"
    /\ attempts' = <<>>
    /\ UNCHANGED <<goos, fsVars, scanVars, files0, dirs0, calls, externals>>

\* a file of the request universe is deleted outside the program, before a call
ExternalRemove(p) ==
    /\ pc = "idle"
    /\ calls < MaxCalls
    /\ externals < MaxExternal
    /\ p \in DOMAIN files
    /\ files' = [q \in DOMAIN files \ {p} |-> files[q]]
    /\ files0' = files'
    /\ externals' = externals + 1
    /\ UNCHANGED <<goos, dirs, readonlyDirs, scanVars, pc, absoluteFilePaths, outputDir,
                   idx, movedCount, events, ret, attempts, dirs0, calls>>

----------------------------------------------------------------------------
(* App.SelectDirectory *)

\* the byte of a character, for the lexical order of filepath.Walk
CharCode(c) ==
    CASE c = "." -> 46 [] c = "4" -> 52 [] c = "M" -> 77 [] c = "V" -> 86
      [] c = "_" -> 95 [] c = "a" -> 97 [] c = "b" -> 98 [] c = "c" -> 99
      [] c = "d" -> 100 [] c = "e" -> 101 [] c = "m" -> 109 [] c = "n" -> 110
      [] c = "o" -> 111 [] c = "s" -> 115
      [] c = "v" -> 118 [] c = "x" -> 120 [] OTHER -> 0

RECURSIVE NameLess(_, _)
\* a < b as Go compares strings
NameLess(a, b) ==
    IF b = <<>> THEN FALSE
    ELSE IF a = <<>> THEN TRUE
    ELSE IF CharCode(Head(a)) # CharCode(Head(b)) THEN CharCode(Head(a)) < CharCode(Head(b))
    ELSE NameLess(Tail(a), Tail(b))

\* the name under which a directory lists a path, <<>> when it does not list it
ChildName(path, dir) ==
    IF Len(path) > Len(dir) /\ SubSeq(path, 1, Len(dir)) = dir
    THEN LET rest == SubSeq(path, Len(dir) + 1, Len(path))
             name == IF IsPathSeparator(dir[Len(dir)]) THEN rest
                     ELSE IF IsPathSeparator(rest[1]) THEN Tail(rest)
                     ELSE <<>>
         IN  IF \E k \in 1..Len(name) : IsPathSeparator(name[k]) THEN <<>> ELSE name
    ELSE <<>>

\* the entries of a directory
Entries(dir) == {p \in DOMAIN files \cup dirs : ChildName(p, dir) # <<>>}

RECURSIVE SortByName(_)
\* the order of the names read from a directory: sorted by file name
SortByName(entries) ==
    IF entries = {} THEN <<>>
    ELSE LET first == CHOOSE e \in entries :
                          \A f \in entries \ {e} : NameLess(e.name, f.name)
         IN  <<first.path>> \o SortByName(entries \ {first})

\* the paths of the entries of a directory, in the order filepath.Walk visits them
ReadDir(dir) == SortByName({[name |-> ChildName(p, dir), path |-> p] : p \in Entries(dir)})

\* a callback that compares the name as it is spelled
IsVideoCaseSensitive(path) == HasSuffix(Base(path), <<".", "m", "4", "v">>)

\* the callback of filepath.Walk for a regular file (lines 57-60)
IsVideo(path) == HasSuffix(ToLower(Base(path)), <<".", "m", "4", "v">>)

RECURSIVE Walk(_, _)
RECURSIVE WalkEntries(_, _)
\* filepath.Walk below a directory: the matching files appended so far, in walk
\* order, and whether the walk was aborted by an entry that cannot be read
Walk(dir, faults) ==
    IF dir \in faults THEN [paths |-> <<>>, err |-> TRUE]
    ELSE WalkEntries(ReadDir(dir), faults)

WalkEntries(paths, faults) ==
    IF paths = <<>> THEN [paths |-> <<>>, err |-> FALSE]
    ELSE LET p == Head(paths)
             here == IF p \in faults THEN [paths |-> <<>>, err |-> TRUE]
                     ELSE IF p \in dirs THEN Walk(p, faults)
                     ELSE [paths |-> IF IsVideo(p) THEN <<p>> ELSE <<>>, err |-> FALSE]
         IN  IF here.err THEN here
             ELSE LET rest == WalkEntries(Tail(paths), faults)
                  IN  [paths |-> here.paths \o rest.paths, err |-> rest.err]

\* a path lies below a directory, at any depth
IsBelow(path, dir) ==
    /\ Len(path) > Len(dir)
    /\ SubSeq(path, 1, Len(dir)) = dir
    /\ IsPathSeparator(dir[Len(dir)]) \/ IsPathSeparator(path[Len(dir) + 1])

\* the entries that may fail to be read during a walk: none, a subdirectory, a file
Faults == {{}, {DirS}, {PathC}}

\* what runtime.OpenDirectoryDialog may give: an error, a cancellation, a
\* directory; with the entries that the walk of the directory fails to read
DialogOutcomes ==
    {[kind |-> "error", dir |-> <<>>, faults |-> {}],
     [kind |-> "cancel", dir |-> <<>>, faults |-> {}]}
        \cup UNION {{[kind |-> "dir", dir |-> d, faults |-> f] :
                        f \in {g \in Faults : \A u \in g : u = d \/ IsBelow(u, d)}} :
                    d \in dirs}

\* SelectDirectory that treats a scan without a match as a failure
SelectDirectoryEmptyIsError(outcome) ==
    /\ pc = "idle"
    /\ IF outcome.kind = "error"
       THEN /\ scanErr' = "ErrDialog"
            /\ videoFiles' = <<>>
            /\ selectedDir' = <<>>
            /\ unreadable' = {}
       ELSE IF outcome.kind = "cancel"
       THEN /\ scanErr' = "nil"
            /\ videoFiles' = <<>>
            /\ selectedDir' = <<>>
            /\ unreadable' = {}
       ELSE LET walked == Walk(outcome.dir, outcome.faults)
            IN  /\ selectedDir' = outcome.dir
                /\ unreadable' = outcome.faults
                /\ scanErr' = IF walked.err \/ walked.paths = <<>> THEN "ErrWalk" ELSE "nil"
                /\ videoFiles' = IF walked.err THEN <<>> ELSE walked.paths
    /\ UNCHANGED <<goos, fsVars, callVars, externals>>

\* SelectDirectory that returns what it collected before the failure
SelectDirectoryPartial(outcome) ==
    /\ pc = "idle"
    /\ IF outcome.kind = "error"
       THEN /\ scanErr' = "ErrDialog"
            /\ videoFiles' = <<>>
            /\ selectedDir' = <<>>
            /\ unreadable' = {}
       ELSE IF outcome.kind = "cancel"
       THEN /\ scanErr' = "nil"
            /\ videoFiles' = <<>>
            /\ selectedDir' = <<>>
            /\ unreadable' = {}
       ELSE LET walked == Walk(outcome.dir, outcome.faults)
            IN  /\ selectedDir' = outcome.dir
                /\ unreadable' = outcome.faults
                /\ scanErr' = IF walked.err THEN "ErrWalk" ELSE "nil"
                /\ videoFiles' = walked.paths
    /\ UNCHANGED <<goos, fsVars, callVars, externals>>

\* App.SelectDirectory (lines 35-70)
SelectDirectory(outcome) ==
    /\ pc = "idle"
    /\ IF outcome.kind = "error"
       THEN /\ scanErr' = "ErrDialog"
            /\ videoFiles' = <<>>
            /\ selectedDir' = <<>>
            /\ unreadable' = {}
       ELSE IF outcome.kind = "cancel"
       THEN /\ scanErr' = "nil"
            /\ videoFiles' = <<>>
            /\ selectedDir' = <<>>
            /\ unreadable' = {}
       ELSE LET walked == Walk(outcome.dir, outcome.faults)
            IN  /\ selectedDir' = outcome.dir
                /\ unreadable' = outcome.faults
                /\ scanErr' = IF walked.err THEN "ErrWalk" ELSE "nil"
                /\ videoFiles' = IF walked.err THEN <<>> ELSE walked.paths
    /\ UNCHANGED <<goos, fsVars, callVars, externals>>

RECURSIVE Ascending(_)
\* the members of a set of numbers, in ascending order
Ascending(numbers) ==
    IF numbers = {} THEN <<>>
    ELSE LET least == CHOOSE n \in numbers : \A m \in numbers : n <= m
         IN  <<least>> \o Ascending(numbers \ {least})

\* the requests made of scanned videos: a selection of at most MaxReq entries of
\* the returned list, in list order
ScannedRequests ==
    {[k \in 1..Cardinality(picked) |-> videoFiles[Ascending(picked)[k]]] :
        picked \in {I \in SUBSET (1..Len(videoFiles)) :
                       Cardinality(I) \in 1..MaxReq}}

----------------------------------------------------------------------------
Next ==
    \/ (\E req \in Requests : MoveVideosEnter(req)) /\ UNCHANGED <<thumbVars, uiVars>>
    \/ MoveVideosResolve /\ UNCHANGED <<thumbVars, uiVars>>
    \/ MoveVideosMkdir /\ UNCHANGED <<thumbVars, uiVars>>
    \/ MoveVideosNext /\ UNCHANGED <<thumbVars, uiVars>>
    \/ MoveVideosRename /\ UNCHANGED <<thumbVars, uiVars>>
    \/ MoveVideosReturn /\ UNCHANGED <<thumbVars, uiVars>>
    \/ (\E p \in RequestPaths : ExternalRemove(p)) /\ UNCHANGED <<thumbVars, uiVars>>

Spec == Init /\ [][Next]_vars

\* the backend driven by scans: every request is a selection of scanned videos
NextScan ==
    \/ (\E outcome \in DialogOutcomes : SelectDirectory(outcome)) /\ UNCHANGED <<thumbVars, uiVars>>
    \/ (\E req \in ScannedRequests : MoveVideosEnter(req)) /\ UNCHANGED <<thumbVars, uiVars>>
    \/ MoveVideosResolve /\ UNCHANGED <<thumbVars, uiVars>>
    \/ MoveVideosMkdir /\ UNCHANGED <<thumbVars, uiVars>>
    \/ MoveVideosNext /\ UNCHANGED <<thumbVars, uiVars>>
    \/ MoveVideosRename /\ UNCHANGED <<thumbVars, uiVars>>
    \/ MoveVideosReturn /\ UNCHANGED <<thumbVars, uiVars>>

SpecScan == Init /\ [][NextScan]_vars

\* the paths GenerateThumbnail is called with: full paths, and a bare file name
ThumbnailPaths == {PathA, PathSA, PathE, Base(PathC)}

\* the thumbnail operation alone
NextThumb ==
    \E videoPath \in ThumbnailPaths, video \in VideoKinds :
        \E run \in ToolRuns(video) :
            GenerateThumbnail(videoPath, video, run) /\ UNCHANGED uiVars

SpecThumb == Init /\ [][NextThumb]_vars

----------------------------------------------------------------------------
(* The front end: the script of the Vue component *)

\* chunkGenerateThumbnails(videoArray, chunkSize = 2)
ChunkSize == 2

RECURSIVE LastIndexOf(_, _)
\* String.prototype.lastIndexOf for one character: 0-based, -1 when absent
LastIndexOf(str, c) ==
    IF str = <<>> THEN -1
    ELSE IF str[Len(str)] = c THEN Len(str) - 1
    ELSE LastIndexOf(SubSeq(str, 1, Len(str) - 1), c)

\* String.prototype.substring(start, end): negative indexes count as 0, indexes
\* beyond the end as the length, and the two are swapped when start > end
Substring(str, start, end) ==
    LET clamp(n) == IF n < 0 THEN 0 ELSE IF n > Len(str) THEN Len(str) ELSE n
        from == IF clamp(start) <= clamp(end) THEN clamp(start) ELSE clamp(end)
        to == IF clamp(start) <= clamp(end) THEN clamp(end) ELSE clamp(start)
    IN  SubSeq(str, from + 1, to)

\* path.split('/').pop() || ''
FileNameOf(path) ==
    LET parts == Split(path, "/") IN parts[Len(parts)]

\* videoPaths[0].substring(0, videoPaths[0].lastIndexOf('\\'))
BaseDirectoryOf(path) == Substring(path, 0, LastIndexOf(path, "\\"))

\* the entry pushed for a scanned path
VideoItem(id, path) ==
    [id |-> id, name |-> FileNameOf(path), path |-> path,
     thumbnail |-> FALSE, error |-> FALSE, selected |-> FALSE]

\* selectedVideos: videos.filter(video => video.selected)
selectedVideos == SelectSeq(videos, LAMBDA v : v.selected)

\* videoArray.slice(i, i + chunkSize) of a list
Chunk(list, i) ==
    SubSeq(list, i + 1, IF i + ChunkSize < Len(list) THEN i + ChunkSize ELSE Len(list))

\* chunk.map(generateThumbnail): the calls a loop sends for a chunk
ChunkCalls(loop, chunk) ==
    {[loop |-> loop, id |-> chunk[k].id, name |-> chunk[k].name] : k \in 1..Len(chunk)}

\* the runs of the tool told apart by the front end: failures, and one success
SeenRuns ==
    ToolRuns("zero-length") \cup {[err |-> "nil", stdout |-> <<255, 216>>, stderr |-> ""]}

\* the directories picked in the dialog of the front end: one with videos at two
\* depths, one without any
PickedOutcomes == {o \in DialogOutcomes : o.kind = "dir" => o.dir \in {DirB, DirN}}

\* no MoveVideos call is between its first statement and its terminal event (the
\* call runs through without waiting for the front end, whose steps share no
\* state with it)
BackendQuiet == pc \in {"idle", "done"}

\* selectBaseDirectory up to its await: the SelectDirectory call (lines 147-150)
selectBaseDirectoryCall(outcome) ==
    /\ ~scanPending
    /\ scans < MaxScans
    /\ SelectDirectory(outcome)
    /\ scanPending' = TRUE
    /\ scans' = scans + 1
    /\ UNCHANGED <<thumb, videos, baseDirectory, videoIdCounter, isMoving,
                   movingVideoIds, loops, thumbCalls, moveQueue, eventSeen>>

\* selectBaseDirectory after its await: the list is rebuilt and a loop of
\* thumbnail requests starts with its first chunk (lines 151-176, 258-261)
selectBaseDirectoryResult ==
    /\ BackendQuiet
    /\ scanPending
    /\ scanPending' = FALSE
    /\ IF scanErr = "nil" /\ Len(videoFiles) > 0
       THEN LET list == [k \in 1..Len(videoFiles) |->
                            VideoItem(videoIdCounter + k - 1, videoFiles[k])]
                chunk == Chunk(list, 0)
            IN  /\ baseDirectory' = BaseDirectoryOf(videoFiles[1])
                /\ videos' = list
                /\ videoIdCounter' = videoIdCounter + Len(videoFiles)
                /\ loops' = loops @@ (scans :> [i |-> 0, pending |-> Len(chunk)])
                /\ thumbCalls' = thumbCalls \cup ChunkCalls(scans, chunk)
       ELSE UNCHANGED <<baseDirectory, videos, videoIdCounter, loops, thumbCalls>>
    /\ UNCHANGED <<goos, fsVars, scanVars, callVars, externals, thumb, isMoving,
                   movingVideoIds, moveQueue, eventSeen, scans>>

\* generateThumbnail after its await: GenerateThumbnail returned for one call;
\* the result is stored on the video object (lines 247-255)
generateThumbnailSettles(call, run) ==
    /\ BackendQuiet
    /\ call \in thumbCalls
    /\ LET result == ThumbnailResult(run)
       IN  videos' = [k \in DOMAIN videos |->
                        IF videos[k].id # call.id THEN videos[k]
                        ELSE IF result.err.kind = "nil"
                        THEN [videos[k] EXCEPT !.thumbnail = TRUE]
                        ELSE [videos[k] EXCEPT !.error = TRUE]]
    /\ thumbCalls' = thumbCalls \ {call}
    /\ loops' = [loops EXCEPT ![call.loop].pending = @ - 1]
    /\ UNCHANGED <<goos, fsVars, scanVars, callVars, externals, thumb, baseDirectory,
                   videoIdCounter, isMoving, movingVideoIds, moveQueue, eventSeen,
                   scans, scanPending>>

\* chunkGenerateThumbnails after Promise.all and the timeout: the next chunk of
\* the list as it is now, or the end of the loop (lines 259-263)
chunkGenerateThumbnailsNext(loop) ==
    /\ BackendQuiet
    /\ loop \in DOMAIN loops
    /\ loops[loop].pending = 0
    /\ LET i == loops[loop].i + ChunkSize
           chunk == Chunk(videos, i)
       IN  IF i < Len(videos)
           THEN /\ loops' = [loops EXCEPT ![loop] = [i |-> i, pending |-> Len(chunk)]]
                /\ thumbCalls' = thumbCalls \cup ChunkCalls(loop, chunk)
           ELSE /\ loops' = [k \in DOMAIN loops \ {loop} |-> loops[k]]
                /\ UNCHANGED thumbCalls
    /\ UNCHANGED <<goos, fsVars, scanVars, callVars, externals, thumb, videos,
                   baseDirectory, videoIdCounter, isMoving, movingVideoIds, moveQueue,
                   eventSeen, scans, scanPending>>

\* the checkbox of a video (v-model="video.selected", line 25)
toggleSelected(k) ==
    /\ BackendQuiet
    /\ k \in DOMAIN videos
    /\ videos' = [videos EXCEPT ![k].selected = ~@]
    /\ UNCHANGED <<goos, fsVars, scanVars, callVars, externals, thumb, baseDirectory,
                   videoIdCounter, isMoving, movingVideoIds, loops, thumbCalls,
                   moveQueue, eventSeen, scans, scanPending>>

\* the Move button (enabled as in lines 37-39) and moveSelectedVideos up to its
\* await: the MoveVideos call is sent (lines 266-295)
moveSelectedVideos ==
    /\ BackendQuiet
    /\ Len(selectedVideos) # 0
    /\ baseDirectory # <<>>
    /\ ~isMoving
    /\ calls + Len(moveQueue) < MaxCalls
    /\ movingVideoIds' = [k \in 1..Len(selectedVideos) |-> selectedVideos[k].id]
    /\ moveQueue' = Append(moveQueue, [k \in 1..Len(selectedVideos) |-> selectedVideos[k].name])
    /\ isMoving' = TRUE
    /\ UNCHANGED <<goos, fsVars, scanVars, callVars, externals, thumb, videos,
                   baseDirectory, videoIdCounter, loops, thumbCalls, eventSeen, scans,
                   scanPending>>

\* the backend takes up the oldest call sent
MoveVideosDispatch ==
    /\ moveQueue # <<>>
    /\ MoveVideosEnter(Head(moveQueue))
    /\ moveQueue' = Tail(moveQueue)
    /\ eventSeen' = FALSE
    /\ UNCHANGED <<thumb, videos, baseDirectory, videoIdCounter, isMoving,
                   movingVideoIds, loops, thumbCalls, scans, scanPending>>

\* onMoveEvent whose move-complete handler leaves isMoving as it is
onMoveEventStillMoving ==
    /\ pc = "done"
    /\ ~eventSeen
    /\ eventSeen' = TRUE
    /\ movingVideoIds' = <<>>
    /\ IF events[Len(events)].name = "move-complete"
       THEN /\ videos' = SelectSeq(videos,
                    LAMBDA v : \A k \in 1..Len(movingVideoIds) : movingVideoIds[k] # v.id)
            /\ UNCHANGED isMoving
       ELSE /\ isMoving' = FALSE
            /\ UNCHANGED videos
    /\ UNCHANGED <<goos, fsVars, scanVars, callVars, externals, thumb, baseDirectory,
                   videoIdCounter, loops, thumbCalls, moveQueue, scans, scanPending>>

\* the handlers of move-complete and move-error (lines 107-127); the handler of
\* move-status only writes to the log
onMoveEvent ==
    /\ pc = "done"
    /\ ~eventSeen
    /\ eventSeen' = TRUE
    /\ isMoving' = FALSE
    /\ movingVideoIds' = <<>>
    /\ IF events[Len(events)].name = "move-complete"
       THEN videos' = SelectSeq(videos,
                LAMBDA v : \A k \in 1..Len(movingVideoIds) : movingVideoIds[k] # v.id)
       ELSE UNCHANGED videos
    /\ UNCHANGED <<goos, fsVars, scanVars, callVars, externals, thumb, baseDirectory,
                   videoIdCounter, loops, thumbCalls, moveQueue, scans, scanPending>>

\* MoveVideos returns and the await of moveSelectedVideos ends: nothing more on
\* success, the catch block on an error (lines 295-303)
moveSelectedVideosSettles ==
    /\ pc = "done"
    /\ eventSeen
    /\ IF ret # "nil"
       THEN isMoving' = FALSE /\ movingVideoIds' = <<>>
       ELSE UNCHANGED <<isMoving, movingVideoIds>>
    /\ MoveVideosReturn
    /\ eventSeen' = FALSE
    /\ UNCHANGED <<thumb, videos, baseDirectory, videoIdCounter, loops, thumbCalls,
                   moveQueue, scans, scanPending>>

\* the front end and the backend together
NextUI ==
    \/ \E outcome \in PickedOutcomes :
            scans < MaxScansMoving /\ selectBaseDirectoryCall(outcome)
    \/ selectBaseDirectoryResult
    \/ \E call \in thumbCalls, run \in SeenRuns : generateThumbnailSettles(call, run)
    \/ \E loop \in DOMAIN loops : chunkGenerateThumbnailsNext(loop)
    \/ \E k \in DOMAIN videos : toggleSelected(k)
    \/ moveSelectedVideos
    \/ MoveVideosDispatch
    \/ MoveVideosResolve /\ UNCHANGED <<thumbVars, uiVars>>
    \/ MoveVideosMkdir /\ UNCHANGED <<thumbVars, uiVars>>
    \/ MoveVideosNext /\ UNCHANGED <<thumbVars, uiVars>>
    \/ MoveVideosRename /\ UNCHANGED <<thumbVars, uiVars>>
    \/ onMoveEvent
    \/ moveSelectedVideosSettles

SpecUI == Init /\ [][NextUI]_vars

\* MoveVideos called with any paths: the requests that may also name the file
\* without a "." in its name
AnyRequests ==
    LET paths == RequestPaths \cup {PathM}
    IN  {req \in UNION {[1..n -> paths] : n \in 0..MaxReqAny} : Distinct(req)}

NextAnyPath ==
    \/ (\E req \in AnyRequests : MoveVideosEnter(req)) /\ UNCHANGED <<thumbVars, uiVars>>
    \/ MoveVideosResolve /\ UNCHANGED <<thumbVars, uiVars>>
    \/ MoveVideosMkdir /\ UNCHANGED <<thumbVars, uiVars>>
    \/ MoveVideosNext /\ UNCHANGED <<thumbVars, uiVars>>
    \/ MoveVideosRename /\ UNCHANGED <<thumbVars, uiVars>>
    \/ MoveVideosReturn /\ UNCHANGED <<thumbVars, uiVars>>

SpecAnyPath == Init /\ [][NextAnyPath]_vars

\* the front end while nothing is moved: directory selections and thumbnails
NextUIThumbs ==
    \/ \E outcome \in PickedOutcomes : selectBaseDirectoryCall(outcome)
    \/ selectBaseDirectoryResult
    \/ \E call \in thumbCalls, run \in SeenRuns : generateThumbnailSettles(call, run)
    \/ \E loop \in DOMAIN loops : chunkGenerateThumbnailsNext(loop)

SpecUIThumbs == Init /\ [][NextUIThumbs]_vars

----------------------------------------------------------------------------
(* Vocabulary of the properties *)

\* the call has executed its return statement
Returned == pc = "done"

\* the last event emitted
LastEvent == events[Len(events)]

\* destination/basename of a request path
AtDestination(path) == outputDir \o <<Separator>> \o Base(path)

\* the request path still holds the file it held when the call started
Untouched(path) ==
    IF path \in DOMAIN files0
    THEN path \in DOMAIN files /\ files[path] = files0[path]
    ELSE path \notin DOMAIN files

\* the call ended in a failed os.Rename
RenameFailed == Returned /\ ret \in {"ErrNotFound", "ErrRename"}

\* the destination of this call was created by this call
DestinationCreated == outputDir \in dirs /\ outputDir \notin dirs0

\* a string with every "." replaced by "_"
DotsToUnderscores(str) == [k \in 1..Len(str) |-> IF str[k] = "." THEN "_" ELSE str[k]]

\* the members of a sequence
Range(seq) == {seq[k] : k \in 1..Len(seq)}

\* the names of the files that lie directly in a directory
NamesIn(dir) == {Base(p) : p \in {q \in DOMAIN files : Dir(q) = dir}}

\* no directory of the request or of the destination refuses changes
NoPermissionProblem ==
    /\ \A j \in 1..Len(absoluteFilePaths) : Dir(absoluteFilePaths[j]) \notin readonlyDirs
    /\ Dir(outputDir) \notin readonlyDirs

----------------------------------------------------------------------------
(* C1: a call with an empty path list returns an error, emits move-error and *)
(* changes nothing in the file system: no directory is created, no file is   *)
(* renamed, no rename is even attempted.                                     *)
C1_EmptyRequestRejected ==
    (pc # "idle" /\ absoluteFilePaths = <<>>) =>
        /\ pc \in {"validate", "done"}
        /\ files = files0
        /\ dirs = dirs0
        /\ attempts = <<>>
        /\ Returned =>
            /\ ret = "ErrNoFiles"
            /\ LastEvent = EvErrNoFiles
            /\ LastEvent.name = "move-error"

C1_Witness ==
    /\ Returned
    /\ absoluteFilePaths = <<>>
    /\ ret = "ErrNoFiles"
    /\ Len(events) = 2

(* C2: fail-fast, no rollback: renames are attempted in request order, each  *)
(* path at most once; the first failed rename ends the call with an error,   *)
(* the paths before it are at destination/basename and gone from their       *)
(* source, the paths after it were never attempted and are untouched.        *)
C2_FailFastNoRollback ==
    /\ attempts = SubSeq(absoluteFilePaths, 1, Len(attempts))
    /\ (pc \in {"loop", "rename"} \/ (Returned /\ ret = "nil")) =>
            movedCount = Len(attempts)
    /\ RenameFailed =>
        /\ idx \in 1..Len(absoluteFilePaths)
        /\ Len(attempts) = idx
        /\ movedCount = idx - 1
        /\ LastEvent.name = "move-error"
        /\ \A j \in 1..(idx - 1) :
              /\ AtDestination(absoluteFilePaths[j]) \in DOMAIN files
              /\ absoluteFilePaths[j] \notin DOMAIN files
        /\ \A j \in (idx + 1)..Len(absoluteFilePaths) : Untouched(absoluteFilePaths[j])

C2_Witness ==
    /\ RenameFailed
    /\ Len(absoluteFilePaths) = 3
    /\ idx = 2
    /\ AtDestination(absoluteFilePaths[1]) \in DOMAIN files
    /\ absoluteFilePaths[3] \in DOMAIN files

(* C3: when exactly the k-th path of the request is missing at call time and *)
(* the destination is created, the first k-1 files are moved, the call ends  *)
(* with the 'source file not found' error, and the files after k stay where  *)
(* they were; a failed rename whose source still exists gives the generic    *)
(* move error instead.                                                       *)
C3_NotFoundOrGeneric ==
    /\ \A k \in 1..Len(absoluteFilePaths) :
          ( /\ Returned
            /\ DestinationCreated
            /\ NoPermissionProblem
            /\ absoluteFilePaths[k] \notin DOMAIN files0
            /\ \A j \in 1..Len(absoluteFilePaths) :
                  j # k => absoluteFilePaths[j] \in DOMAIN files0 )
          => /\ ret = "ErrNotFound"
             /\ LastEvent = EvErrNotFound(Base(absoluteFilePaths[k]))
             /\ idx = k
             /\ movedCount = k - 1
             /\ \A j \in 1..(k - 1) :
                   /\ AtDestination(absoluteFilePaths[j]) \in DOMAIN files
                   /\ absoluteFilePaths[j] \notin DOMAIN files
             /\ \A j \in (k + 1)..Len(absoluteFilePaths) :
                   Untouched(absoluteFilePaths[j])
    /\ RenameFailed =>
          IF absoluteFilePaths[idx] \in DOMAIN files
          THEN ret = "ErrRename" /\ LastEvent = EvErrRename(Base(absoluteFilePaths[idx]))
          ELSE ret = "ErrNotFound"

C3_Witness ==
    /\ Returned
    /\ ret = "ErrNotFound"
    /\ Len(absoluteFilePaths) = 3
    /\ idx = 2
    /\ movedCount = 1
    /\ absoluteFilePaths[1] \in DOMAIN files0
    /\ absoluteFilePaths[2] \notin DOMAIN files0
    /\ absoluteFilePaths[3] \in DOMAIN files

(* C4: a request of n existing files whose destination does not exist yet     *)
(* succeeds: nil is returned, move-complete reports n, the destination holds *)
(* exactly the n files by basename and no source is left at its path.        *)
C4_MoveAllSucceeds ==
    ( /\ Returned
      /\ absoluteFilePaths # <<>>
      /\ \A j \in 1..Len(absoluteFilePaths) : absoluteFilePaths[j] \in DOMAIN files0
      /\ outputDir \notin dirs0
      /\ outputDir \notin DOMAIN files0
      /\ NoPermissionProblem )
    => /\ ret = "nil"
       /\ LastEvent = EvComplete(Len(absoluteFilePaths), outputDir)
       /\ NamesIn(outputDir) = {Base(p) : p \in Range(absoluteFilePaths)}
       /\ \A j \in 1..Len(absoluteFilePaths) : absoluteFilePaths[j] \notin DOMAIN files

(* C5: when the destination directory cannot be created (its path is taken   *)
(* by a regular file or a directory, its parent is missing or refuses        *)
(* changes) the call returns the creation error, emits move-error, and has   *)
(* not renamed or touched any file.                                          *)
C5_CreationFailureIsClean ==
    LET taken == outputDir \in DOMAIN files0 \/ outputDir \in dirs0
        blocked == Dir(outputDir) \notin dirs0 \/ Dir(outputDir) \in readonlyDirs
    IN  (Returned /\ absoluteFilePaths # <<>>) =>
            /\ (taken \/ blocked) <=> ret = "ErrMkdir"
            /\ ret = "ErrMkdir" =>
                /\ LastEvent = EvErrMkdir(outputDir)
                /\ LastEvent.name = "move-error"
                /\ files = files0
                /\ dirs = dirs0
                /\ attempts = <<>>

C5_Witness ==
    /\ Returned
    /\ ret = "ErrMkdir"
    /\ outputDir \in DOMAIN files
    /\ absoluteFilePaths[1] \in DOMAIN files

(* C6: the creation step creates the destination together with its missing   *)
(* ancestors: a destination whose parent does not exist yet is created and   *)
(* the move goes on to the renames.                                          *)
C6_MissingAncestorsCreated ==
    ( /\ Returned
      /\ absoluteFilePaths # <<>>
      /\ Dir(outputDir) \notin dirs0
      /\ Dir(outputDir) \notin DOMAIN files0
      /\ outputDir \notin DOMAIN files0
      /\ NoPermissionProblem )
    => /\ outputDir \in dirs
       /\ Dir(outputDir) \in dirs
       /\ ret # "ErrMkdir"
       /\ attempts # <<>>

(* C7: the resolved destination is a function of the first path alone: in    *)
(* every call, whatever the other paths of the request, their order and the  *)
(* state of the file system, it is the first path with its dots replaced.    *)
C7_DestinationFromFirstPath ==
    (pc \notin {"idle", "validate"} /\ absoluteFilePaths # <<>>) =>
        outputDir = DotsToUnderscores(absoluteFilePaths[1])

\* a second call resolves, for a request of three paths, the directory that an
\* earlier call created: the same first path, another file system
C7_Witness ==
    /\ pc = "mkdir"
    /\ calls = 2
    /\ Len(absoluteFilePaths) = 3
    /\ outputDir \in dirs0
    /\ outputDir \notin {Root, DirB, DirS, DirDX, DirN, DirO}

C9_FolderBesideBaseDirectory ==
    ( /\ DestinationCreated
      /\ selectedDir # <<>>
      /\ selectedDir # Root
      /\ absoluteFilePaths[1] \in Range(videoFiles) )
    => Dir(outputDir) = Dir(selectedDir)

----------------------------------------------------------------------------
(* The notifications of one call *)

\* the statuses the property names: all but "Starting file move process..."
Statuses == SelectSeq(events, LAMBDA e : e.name = "move-status" /\ e.kind # "starting")

\* the per-file statuses
Movings == SelectSeq(events, LAMBDA e : e.kind = "moving")

\* the terminal events
Terminals == SelectSeq(events, LAMBDA e : e.name \in {"move-complete", "move-error"})

\* the statuses of a call that moves every file, in the order of the property
AllStatuses ==
    <<EvReceived(Len(absoluteFilePaths)), EvTarget(outputDir), EvCreated>>
        \o [j \in 1..Len(absoluteFilePaths) |-> EvMoving(Base(absoluteFilePaths[j]))]

ErrorOfKind(kind) ==
    CASE kind = "no-files" -> "ErrNoFiles"
      [] kind = "mkdir" -> "ErrMkdir"
      [] kind = "not-found" -> "ErrNotFound"
      [] kind = "rename" -> "ErrRename"
      [] OTHER -> "nil"

(* C11: the return value agrees with the terminal notification: nil is       *)
(* returned exactly when move-complete was emitted, an error exactly when    *)
(* move-error was emitted, never both in one call; the error returned is the *)
(* first (and only) error the call met: every step before it succeeded.      *)
C11_ReturnAgreesWithTerminal ==
    LET completes == SelectSeq(events, LAMBDA e : e.name = "move-complete")
        errors == SelectSeq(events, LAMBDA e : e.name = "move-error")
    IN  /\ pc \in {"validate", "mkdir", "loop", "rename"} =>
              ret = "pending" /\ completes = <<>> /\ errors = <<>>
        /\ Returned =>
              /\ ret \in {"nil", "ErrNoFiles", "ErrMkdir", "ErrNotFound", "ErrRename"}
              /\ ret = "nil" <=> completes # <<>>
              /\ ret # "nil" <=> errors # <<>>
              /\ completes = <<>> \/ errors = <<>>
              /\ ret # "nil" =>
                    /\ ret = ErrorOfKind(errors[1].kind)
                    /\ Len(errors) = 1
              /\ ret = "ErrNoFiles" => outputDir = <<>>
              /\ ret = "ErrMkdir" => outputDir \notin dirs \/ outputDir \in dirs0
              /\ ret \in {"ErrNotFound", "ErrRename"} =>
                    /\ DestinationCreated
                    /\ Len(attempts) = movedCount + 1
                    /\ \A j \in 1..movedCount :
                          AtDestination(absoluteFilePaths[j]) \in DOMAIN files

C11_Witness ==
    /\ Returned
    /\ ret = "ErrRename"
    /\ movedCount = 1
    /\ LastEvent.name = "move-error"

----------------------------------------------------------------------------
(* The thumbnail operation *)

\* a call of GenerateThumbnail has returned
ThumbnailReturned == thumb.runs # <<>>

\* the call returned an error
ThumbnailFailed == thumb.err.kind # "nil"

\* the events of the last call that notify an error
ErrorEvents(evs) == SelectSeq(evs, LAMBDA e : e.name \in {"move-error", "thumbnail-error"})

(* C12: every error of the move operation and of the thumbnail operation is  *)
(* returned and also notified: when MoveVideos or GenerateThumbnail returns  *)
(* an error, an error event was emitted during that call.                    *)
C12_ErrorsAreNotified ==
    /\ (Returned /\ ret # "nil") => ErrorEvents(events) # <<>>
    /\ (ThumbnailReturned /\ ThumbnailFailed) => ErrorEvents(thumb.events) # <<>>

\* the three outcomes of GenerateThumbnail, read off the one run of the tool
ThreeOutcomes ==
    LET run == thumb.runs[1] IN
    /\ Len(thumb.runs) = 1
    /\ run.err # "nil" =>
          /\ thumb.err.kind = "ErrToolFailed"
          /\ thumb.err.cause = run.err
          /\ thumb.err.stderr = run.stderr
          /\ thumb.url = <<>>
    /\ (run.err = "nil" /\ run.stdout = <<>>) =>
          /\ thumb.err.kind = "ErrNoData"
          /\ thumb.url = <<>>
    /\ (run.err = "nil" /\ run.stdout # <<>>) =>
          /\ thumb.err.kind = "nil"
          /\ thumb.url[1] = "data:image/jpeg;base64,"
          /\ Len(thumb.url) = 1 + 4 * ((Len(run.stdout) + 2) \div 3)
          /\ Base64Char(run.stdout[1] \div 4) = thumb.url[2]
          /\ \A k \in 2..Len(thumb.url) : thumb.url[k] \in Range(Base64Alphabet) \cup {"="}
    /\ thumb.err.kind = "nil" => run.stdout # <<>> /\ Len(thumb.url) > 1

(* C16 as written: three outcomes without retry (tool failure with the       *)
(* tool's diagnostics, 'no data' for a zero exit without output, success     *)
(* with a non-empty JPEG data URL otherwise), and a zero-length video gives  *)
(* the 'no data' error whenever the tool binary is found.                    *)
C16_ZeroLengthVideoGivesNoData ==
    ThumbnailReturned =>
        /\ ThreeOutcomes
        /\ (thumb.video = "zero-length" /\ thumb.runs[1].err # "not-found") =>
              thumb.err.kind = "ErrNoData"

(* C16 amended: three outcomes without retry, decided by the run of the tool *)
(* alone; a zero-length video never gives success, and it gives 'no data'    *)
(* only when the tool exits zero: when the tool exits non-zero on it the     *)
(* error is the tool failure, of the same kind as for a missing binary.      *)
C16_ThreeOutcomesByToolRun ==
    ThumbnailReturned =>
        /\ ThreeOutcomes
        /\ thumb.video = "zero-length" =>
              /\ ThumbnailFailed
              /\ thumb.err.kind = "ErrNoData" <=> thumb.runs[1].err = "nil"
              /\ thumb.err.kind = "ErrToolFailed" <=>
                    thumb.runs[1].err \in {"exit-status", "not-found"}

C16_Witness ==
    /\ ThumbnailReturned
    /\ thumb.video = "zero-length"
    /\ thumb.err.kind = "ErrToolFailed"
    /\ thumb.err.cause = "exit-status"
    /\ thumb.err.stderr # ""

----------------------------------------------------------------------------
(* The scan *)

\* a path lies below a directory, at any depth
IsUnder(path, dir) ==
    /\ Len(path) > Len(dir)
    /\ SubSeq(path, 1, Len(dir)) = dir
    /\ dir = Root \/ path[Len(dir) + 1] = Separator

\* the regular files below a directory whose extension is .m4v in any case
Matching(dir) ==
    {p \in DOMAIN files :
        IsUnder(p, dir) /\ ToLower(Ext(Base(p))) = <<".", "m", "4", "v">>}

\* the entries of the scanned tree that the scan is unable to read
Unread(dir, faults) ==
    {u \in faults : Exists(u) /\ (u = dir \/ IsUnder(u, dir))}

\* this step is a scan of a directory chosen in the dialog
ScanStep == scanVars' # scanVars /\ selectedDir' # <<>>

(* C13: a scan that succeeds returns exactly the regular files below the     *)
(* selected directory, at any depth, whose extension is .m4v compared        *)
(* case-insensitively, each once; no other file and no directory.            *)
C13_ScanReturnsExactlyMatching ==
    [][(ScanStep /\ scanErr' = "nil") =>
          /\ Range(videoFiles') = Matching(selectedDir')
          /\ Len(videoFiles') = Cardinality(Matching(selectedDir'))
          /\ Range(videoFiles') \cap dirs = {}]_vars

C13_Witness ==
    /\ scanErr = "nil"
    /\ selectedDir = Root
    /\ Len(videoFiles) = 4
    /\ {PathSA, PathE} \subseteq Range(videoFiles)
    /\ DirDX \in dirs
    /\ PathBlock \in DOMAIN files

(* C14: a scan of a directory that holds no matching file, an empty          *)
(* directory included, returns the empty sequence and a nil error.           *)
C14_NoMatchIsEmptyNotError ==
    [][(ScanStep /\ Matching(selectedDir') = {} /\ Unread(selectedDir', unreadable') = {}) =>
          /\ videoFiles' = <<>>
          /\ scanErr' = "nil"]_vars

C14_Witness ==
    /\ selectedDir = DirN
    /\ Entries(DirN) = {PathM, DirO}
    /\ Entries(DirO) = {}
    /\ videoFiles = <<>>
    /\ scanErr = "nil"

(* C15: the scan is fail-fast: when an entry or a subdirectory of the        *)
(* scanned tree cannot be read, the scan returns the error and no path at    *)
(* all, whatever it had collected before; it fails for no other reason.      *)
C15_ScanFailFast ==
    [][ScanStep =>
          /\ Unread(selectedDir', unreadable') # {} =>
                (scanErr' = "ErrWalk" /\ videoFiles' = <<>>)
          /\ scanErr' # "nil" =>
                (videoFiles' = <<>> /\ Unread(selectedDir', unreadable') # {})]_vars

\* the scan of /b fails at its subdirectory, after the matching files of /b
C15_Witness ==
    /\ scanErr = "ErrWalk"
    /\ selectedDir = DirB
    /\ unreadable = {DirS}
    /\ videoFiles = <<>>
    /\ {PathA, PathC} \subseteq Matching(DirB)

----------------------------------------------------------------------------
\* nothing of the front end is still to happen to the thumbnails: a scan was
\* made, no selection is awaited, every loop has ended and every call settled
ThumbnailsAtRest ==
    /\ scans > 0
    /\ ~scanPending
    /\ DOMAIN loops = {}
    /\ thumbCalls = {}

(* C17: thumbnail requests are independent, and after a scan every video of  *)
(* the list ends with a thumbnail or an error on it: once the loops have      *)
(* ended and every call has returned, no listed video is without both.        *)
C17_EveryVideoEndsWithThumbnailOrError ==
    ThumbnailsAtRest =>
        \A k \in DOMAIN videos : videos[k].thumbnail \/ videos[k].error

(* C18: at most two GenerateThumbnail calls are outstanding at any moment,   *)
(* across any sequence of actions, repeated directory selections included.    *)
C18_AtMostTwoOutstanding == Cardinality(thumbCalls) <= ChunkSize

\* the MoveVideos calls sent by the front end that have not returned
MovesInFlight == Len(moveQueue) + (IF pc = "idle" THEN 0 ELSE 1)

(* C19: at most one MoveVideos call is in flight at any time: no call is     *)
(* sent before the previous one has returned.                                 *)
C19_AtMostOneMoveInFlight == MovesInFlight <= 1

----------------------------------------------------------------------------
\* the path SelectDirectory returned for the listed video with this id
ListedPath(id) == videos[CHOOSE k \in DOMAIN videos : videos[k].id = id].path

\* the video with this id is in the list
Listed(id) == \E k \in DOMAIN videos : videos[k].id = id

\* the MoveVideos call sent last, while movingVideoIds still tracks its videos
LastSent == moveQueue[Len(moveQueue)]

(* C21: the paths passed to GenerateThumbnail and to MoveVideos are exactly  *)
(* the full paths SelectDirectory returned for those videos, on both kinds    *)
(* of separators, in the list order of the videos.                            *)
C21_FullPathsPassed ==
    /\ \A call \in thumbCalls : Listed(call.id) => call.name = ListedPath(call.id)
    /\ (moveQueue # <<>> /\ Len(movingVideoIds) = Len(LastSent)) =>
            \A j \in 1..Len(LastSent) :
                Listed(movingVideoIds[j]) => LastSent[j] = ListedPath(movingVideoIds[j])

----------------------------------------------------------------------------
\* the step in which the front end handles the terminal event of the call
HandlesMoveComplete ==
    /\ ~eventSeen
    /\ eventSeen'
    /\ LastEvent.name = "move-complete"

\* the video was submitted in the request of the call that emitted the event
\* (a request holds the names of its videos, and a name is listed once)
Submitted(v) == v.name \in Range(absoluteFilePaths)

(* C22: on move-complete the list loses exactly the videos submitted in that  *)
(* move request, every other entry stays as it was, its selection included,   *)
(* and the tracked ids are cleared.                                           *)
C22_MoveCompleteRemovesSubmitted ==
    [][HandlesMoveComplete =>
            /\ videos' = SelectSeq(videos, LAMBDA v : ~Submitted(v))
            /\ movingVideoIds' = <<>>]_vars

----------------------------------------------------------------------------
\* the file a request path held at the start of the call is still at that path
StillAtSource(path) == path \in DOMAIN files /\ files[path] = files0[path]

\* the file a request path held at the start of the call is at destination/basename
NowAtDestination(path) ==
    /\ outputDir # <<>>
    /\ AtDestination(path) \in DOMAIN files
    /\ files[AtDestination(path)] = files0[path]

\* the files that lie directly in the destination
FilesInDestination == {p \in DOMAIN files : Dir(p) = outputDir}

(* C23: during and after a MoveVideos call every file of the request that    *)
(* existed at the start of the call is at exactly one of its original path    *)
(* and destination/basename, also when two request paths share a basename;    *)
(* on success the destination holds as many files as the reported count.      *)
C23_NoFileLostOrOverwritten ==
    pc # "idle" =>
        /\ \A j \in 1..Len(absoluteFilePaths) :
               LET path == absoluteFilePaths[j]
               IN  path \in DOMAIN files0 =>
                       StillAtSource(path) # NowAtDestination(path)
        /\ (Returned /\ ret = "nil") => Cardinality(FilesInDestination) = movedCount

----------------------------------------------------------------------------
\* no MoveVideos call is sent or running, and the last one has returned
MovesAtRest == pc = "idle" /\ moveQueue = <<>>

(* C24: after any sequence of scans and move requests every entry of the     *)
(* video list refers to a file that is still at its listed path; after a      *)
(* move that failed part-way the files it had moved are no longer listed.     *)
C24_ListedVideosAreInPlace ==
    MovesAtRest => \A k \in DOMAIN videos : videos[k].path \in DOMAIN files

----------------------------------------------------------------------------
\* the call has resolved its destination
Resolved == absoluteFilePaths # <<>> /\ outputDir # <<>>

(* C25: for every non-empty request the destination resolved by MoveVideos   *)
(* differs from the first source path, also for a first path without a ".",   *)
(* so the creation step never collides with the file that names the folder.   *)
C25_DestinationIsNotTheSource == Resolved => outputDir # absoluteFilePaths[1]

----------------------------------------------------------------------------
\* the move action is available again as far as the move state is concerned
NotMoving == ~isMoving /\ movingVideoIds = <<>>

(* C26: every move request started by the front end leaves isMoving false    *)
(* and the tracked ids empty, whether the backend emits move-complete or      *)
(* move-error or the call is rejected: every call runs to its terminal event  *)
(* and its return, and once the calls sent have returned and their events     *)
(* are handled the front end is not moving.                                   *)
C26_MoveEndsNotMoving == MovesAtRest => NotMoving

\* a request has moved a file, the call has returned, and the front end is not
\* moving any more
C26_Witness ==
    /\ calls > 0
    /\ MovesAtRest
    /\ NotMoving
    /\ \E path \in DOMAIN files : files[path] # path

----------------------------------------------------------------------------
(* C20: when the destination already exists as a directory, the creation     *)
(* step counts as success and the call goes on to move the files into it.    *)
C20_ExistingDirectoryIsSuccess ==
    ( /\ Returned
      /\ absoluteFilePaths # <<>>
      /\ outputDir \in dirs0
      /\ NoPermissionProblem )
    => /\ ret # "ErrMkdir"
       /\ attempts # <<>>
       /\ EvCreated \in Range(events)

====
